---------------------------- MODULE Spec2Model ----------------------------
(***************************************************************************)
(* A model of src/extract_races.py: the fragment parsers (parse_header,    *)
(* parse_distance_surface, parse_trainers_footer, parse_horse_row,         *)
(* format_date), the page loop of extract_race_data and save_to_csv.       *)
(*                                                                         *)
(* Python str values are TLA+ strings; a character is a string of length   *)
(* 1, positions are 1-based and an "end" position is exclusive.  A Python  *)
(* value that may be None is a sequence of length 0 (None) or 1 (the       *)
(* value).  Each regular expression of the source is translated into the   *)
(* search the re module performs for it: leftmost start, then the          *)
(* greedy/lazy preference of each quantifier.                              *)
(***************************************************************************)
EXTENDS Integers, Sequences, FiniteSets, TLC

VARIABLES
    pdf,          \* extract_race_data: the text of each page, in document order
    pageIdx,      \* extract_race_data: 1-based index of the page of the for loop
    pc,           \* position in extract_race_data / __main__
    track,        \* locals of extract_race_data (they outlive a loop iteration)
    date_str,
    race_num,
    date,
    distance,
    surface,
    trainer_map,
    horse_rows,
    lines,
    lineIdx,      \* position of `for line in lines`
    rowIdx,       \* the i of `for i, row in enumerate(horse_rows)`
    all_races,    \* the list returned by extract_race_data
    origin,       \* history: for each record of all_races, the page that emitted it
    skipped,      \* history: the pages that took the `continue` of line 191
    csv_out,      \* the rows save_to_csv wrote (each a sequence of written fields)
    arg,          \* argument of a single call of a parser
    called,       \* whether that call has returned
    ret           \* its return value

vars == <<pdf, pageIdx, pc, track, date_str, race_num, date, distance, surface,
          trainer_map, horse_rows, lines, lineIdx, rowIdx, all_races, origin,
          skipped, csv_out, arg, called, ret>>

pipeVars == <<pdf, pageIdx, pc, track, date_str, race_num, date, distance, surface,
              trainer_map, horse_rows, lines, lineIdx, rowIdx, all_races, origin,
              skipped, csv_out>>

callVars == <<arg, called, ret>>

-----------------------------------------------------------------------------
(* Characters and strings                                                   *)

None == <<>>
Some(v) == <<v>>

At(s, i) == SubSeq(s, i, i)

\* The characters are those a string of this module can hold, U+0000 to U+00FF.

\* str.isspace() / the regex class \s of a str pattern: the blank, \t, \n, \r,
\* \f, the vertical tab U+000B, the separators U+001C to U+001F, the next-line
\* character U+0085 and the no-break space U+00A0 (the last seven stand in the
\* strings below as the characters themselves)
Whitespace == {" ", "\t", "\n", "\r", "\f", "", "", "", "", "",
               "", " "}

\* the regex class \d of a str pattern
Digits == {"0", "1", "2", "3", "4", "5", "6", "7", "8", "9"}

\* the characters of str.isdigit(): \d and the superscripts 2, 3 and 1
DigitChars == Digits \cup {"²", "³", "¹"}

UpperStr == "ABCDEFGHIJKLMNOPQRSTUVWXYZ"
LowerStr == "abcdefghijklmnopqrstuvwxyz"
UpperSet == {At(UpperStr, i) : i \in 1..26}
LowerSet == {At(LowerStr, i) : i \in 1..26}

\* the regex class [a-zA-Z]
Letters == UpperSet \cup LowerSet

\* the characters that str.lower() changes, and what it makes of them: A to Z
\* and the capital letters of U+00C0 to U+00DE
CasedUpper == UpperStr \o "ÀÁÂÃÄÅÆÇÈÉÊËÌÍÎÏÐÑÒÓÔÕÖØÙÚÛÜÝÞ"
CasedLower == LowerStr \o "àáâãäåæçèéêëìíîïðñòóôõöøùúûüýþ"

LowerOf ==
    [c \in {At(CasedUpper, i) : i \in 1..Len(CasedUpper)} |->
        At(CasedLower, CHOOSE i \in 1..Len(CasedUpper) : At(CasedUpper, i) = c)]

\* str.lower() of one character
LowerChar(c) == IF c \in DOMAIN LowerOf THEN LowerOf[c] ELSE c

\* the least i in lo..hi with f[i], or a position after hi if there is none
FirstIn(f, lo, hi) ==
    IF \E i \in lo..hi : f[i]
    THEN CHOOSE i \in lo..hi : f[i] /\ \A j \in lo..(i - 1) : ~f[j]
    ELSE IF lo > hi THEN lo ELSE hi + 1

\* f[lo] \o ... \o f[hi], "" if lo > hi
RECURSIVE Concat(_, _, _)
Concat(f, lo, hi) ==
    IF lo > hi THEN ""
    ELSE IF lo = hi THEN f[lo]
    ELSE LET mid == (lo + hi) \div 2
         IN  Concat(f, lo, mid) \o Concat(f, mid + 1, hi)

\* str.lower()
Lower(s) == Concat([i \in 1..Len(s) |-> LowerChar(At(s, i))], 1, Len(s))

\* s[a-1:b-1] of Python, in 1-based positions with b exclusive
Slice(s, a, b) == IF a >= b THEN "" ELSE SubSeq(s, a, b - 1)

\* end of the run of characters of class cls that starts at i (i itself if none)
RunEnd(s, i, cls) == FirstIn([j \in i..Len(s) |-> At(s, j) \notin cls], i, Len(s))

\* the regex \s* at position i: it is always followed by a non-space atom in the
\* patterns of this program, so it can only take the whole run
SkipWs(s, i) == RunEnd(s, i, Whitespace)

\* the end of s without its trailing whitespace: the least e such that
\* s[e..] is all whitespace
RStripEnd(s) ==
    FirstIn([e \in 1..Len(s) |-> \A j \in e..Len(s) : At(s, j) \in Whitespace], 1, Len(s))

\* str.strip()
Strip(s) == Slice(s, SkipWs(s, 1), RStripEnd(s))

\* a literal of a re.IGNORECASE pattern (given in lower case) at position i
LitAt(s, i, lit) ==
    /\ i + Len(lit) - 1 <= Len(s)
    /\ \A k \in 1..Len(lit) : LowerChar(At(s, i + k - 1)) = At(lit, k)

\* needle in hay
Contains(hay, needle) ==
    \E i \in 1..(Len(hay) - Len(needle) + 1) : Slice(hay, i, i + Len(needle)) = needle

\* str.isdigit()
IsDigitStr(s) == Len(s) > 0 /\ \A i \in 1..Len(s) : At(s, i) \in DigitChars

\* the regex \d+ matches all of s
IsDigitRun(s) == Len(s) > 0 /\ \A i \in 1..Len(s) : At(s, i) \in Digits

\* s.replace(c, '') for a one-character c
Remove(s, c) == Concat([i \in 1..Len(s) |-> IF At(s, i) = c THEN "" ELSE At(s, i)], 1, Len(s))

\* the first position >= i that holds a character of stops (Len(s) + 1 if none)
Until(s, i, stops) == FirstIn([j \in i..Len(s) |-> At(s, j) \in stops], i, Len(s))

\* str.split(): the whitespace-delimited tokens
RECURSIVE TokensFrom(_, _)
TokensFrom(s, i) ==
    LET a == SkipWs(s, i)
        b == Until(s, a, Whitespace)
    IN  IF a > Len(s) THEN <<>> ELSE <<Slice(s, a, b)>> \o TokensFrom(s, b)

Tokens(s) == TokensFrom(s, 1)

\* str.split(sep) / re.split('[...]', s): the pieces between separator characters
RECURSIVE SplitFrom(_, _, _)
SplitFrom(s, i, seps) ==
    LET e == Until(s, i, seps)
    IN  IF e > Len(s) THEN <<Slice(s, i, e)>>
        ELSE <<Slice(s, i, e)>> \o SplitFrom(s, e + 1, seps)

SplitOn(s, seps) == SplitFrom(s, 1, seps)

DigitVal == [c \in Digits |-> CHOOSE n \in 0..9 : At("0123456789", n + 1) = c]

RECURSIVE ToIntUpTo(_, _)
ToIntUpTo(s, n) ==
    IF n = 0 THEN 0 ELSE 10 * ToIntUpTo(s, n - 1) + DigitVal[At(s, n)]

\* int(s) of a digit string
ToInt(s) == ToIntUpTo(s, Len(s))

\* str(n) of n >= 0
RECURSIVE ToStr(_)
ToStr(n) ==
    IF n < 10 THEN At("0123456789", n + 1)
    ELSE ToStr(n \div 10) \o At("0123456789", (n % 10) + 1)

\* the %02d of strftime's %m and %d
Pad2(n) == IF n < 10 THEN "0" \o ToStr(n) ELSE ToStr(n)

-----------------------------------------------------------------------------
(* format_date                                                              *)

\* re.sub(r'([a-zA-Z]+)(\d+)', r'\1 \2', s): a letter run directly followed by a
\* digit run gets a space between the two
SpaceLetterDigit(s) ==
    Concat([i \in 1..Len(s) |-> IF At(s, i) \in Letters /\ i < Len(s) /\ At(s, i + 1) \in Digits
                      THEN At(s, i) \o " " ELSE At(s, i)],
           1, Len(s))

\* re.sub(r'(\d+),(\d+)', r'\1, \2', s): matches do not overlap, so the digit run
\* that closes one match does not open the next
RECURSIVE SpaceCommaDigit(_, _)
SpaceCommaDigit(s, i) ==
    IF i > Len(s) THEN ""
    ELSE IF At(s, i) \in Digits
         THEN LET e == RunEnd(s, i, Digits)
                  f == RunEnd(s, e + 1, Digits)
              IN  IF e < Len(s) /\ At(s, e) = "," /\ At(s, e + 1) \in Digits
                  THEN Slice(s, i, e) \o ", " \o Slice(s, e + 1, f)
                           \o SpaceCommaDigit(s, f)
                  ELSE Slice(s, i, e) \o SpaceCommaDigit(s, e)
         ELSE LET n == Until(s, i, Digits)
              IN  Slice(s, i, n) \o SpaceCommaDigit(s, n)

\* a variant that leaves the text as given
NormalizeNothing(s) == s

\* lines 160-161
NormalizeDate(s) == SpaceCommaDigit(SpaceLetterDigit(s), 1)

\* %B of strptime in the C locale (matched ignoring case)
MonthNames == <<"january", "february", "march", "april", "may", "june", "july",
                "august", "september", "october", "november", "december">>

IsLeap(y) == (y % 4 = 0) /\ ((y % 100 # 0) \/ (y % 400 = 0))

DaysInMonth(y, m) ==
    IF m = 2 THEN (IF IsLeap(y) THEN 29 ELSE 28)
    ELSE IF m \in {4, 6, 9, 11} THEN 30 ELSE 31

\* %d of strptime: 3[0-1]|[1-2]\d|0[1-9]|[1-9]
IsDayToken(d) ==
    \/ Len(d) = 1 /\ d \in Digits \ {"0"}
    \/ Len(d) = 2 /\ At(d, 1) = "0" /\ At(d, 2) \in Digits \ {"0"}
    \/ Len(d) = 2 /\ At(d, 1) \in {"1", "2"} /\ At(d, 2) \in Digits
    \/ Len(d) = 2 /\ At(d, 1) = "3" /\ At(d, 2) \in {"0", "1"}

\* datetime.datetime.strptime(s, '%B %d, %Y'): None stands for ValueError, else
\* the date <<year, month, day>>.  The format compiles to
\* (?P<B>month)\s+(?P<d>day),\s+(?P<Y>\d\d\d\d), which must match all of s.
Strptime(s) ==
    LET ms == {m \in 1..12 : LitAt(s, 1, MonthNames[m])}
    IN  IF ms = {} THEN None
        ELSE
          LET m  == CHOOSE x \in ms : TRUE
              a  == Len(MonthNames[m]) + 1
              b  == SkipWs(s, a)
              c  == RunEnd(s, b, Digits)
              d  == Slice(s, b, c)
              e  == SkipWs(s, c + 1)
              y  == Slice(s, e, Len(s) + 1)
          IN  IF /\ b > a
                 /\ IsDayToken(d)
                 /\ c <= Len(s) /\ At(s, c) = ","
                 /\ e > c + 1
                 /\ Len(y) = 4 /\ IsDigitRun(y)
                 /\ ToInt(y) >= 1
                 /\ ToInt(d) <= DaysInMonth(ToInt(y), m)
              THEN Some(<<ToInt(y), m, ToInt(d)>>)
              ELSE None

\* date_obj.strftime('%Y-%m-%d'); %Y of the C library does not pad the year
Strftime(d) == ToStr(d[1]) \o "-" \o Pad2(d[2]) \o "-" \o Pad2(d[3])

\* lines 164-166: the formatted date, or the text as given on ValueError
DateOrText(s, date_obj) == IF date_obj = None THEN s ELSE Strftime(date_obj[1])

format_date(s) == DateOrText(s, Strptime(NormalizeDate(s)))

-----------------------------------------------------------------------------
(* parse_header                                                             *)

\* the regex class [A-Z\s\.] under re.IGNORECASE
TrackClass == Letters \cup Whitespace \cup {"."}

\* \s*-\s*Race\s*(\d+) at position e: None, or <<start, end>> of the digit group
\* (\d+ is greedy and nothing follows it: it takes the whole digit run)
HeaderTail(s, e) ==
    LET a == SkipWs(s, e)
        b == SkipWs(s, a + 1)
        c == SkipWs(s, b + 4)
        d == RunEnd(s, c, Digits)
    IN  IF a <= Len(s) /\ At(s, a) = "-" /\ LitAt(s, b, "race") /\ d > c
        THEN Some(<<c, d>>)
        ELSE None

\* the position e if the scan that ends at stop found it, else None
Found(e, stop) == IF e <= stop THEN Some(e) ELSE None

\* the text of the range r = <<start, end>> of s
SliceOf(s, r) == Slice(s, r[1], r[2])

\* the rest of the line from position g: what .* takes without re.DOTALL
RestOfLine(s, g) == Slice(s, g, Until(s, g, {"\n"}))

\* the lazy (.*?) that starts at p: the first end e >= p, with no newline before
\* it, at which the rest of the pattern matches
HeaderDateEnd(s, p) ==
    Found(FirstIn([j \in p..Until(s, p, {"\n"}) |-> HeaderTail(s, j) # None],
                  p, Until(s, p, {"\n"})),
          Until(s, p, {"\n"}))

\* the range <<p, e>> if the end e was found
RangeFrom(p, e) == IF e = None THEN None ELSE Some(<<p, e[1]>>)

\* \s*-\s*(.*?)\s*-\s*Race\s*(\d+) at position e1: None, or <<p, e2>> with
\* group 2 = s[p, e2)
HeaderRest(s, e1) ==
    IF SkipWs(s, e1) <= Len(s) /\ At(s, SkipWs(s, e1)) = "-"
    THEN RangeFrom(SkipWs(s, SkipWs(s, e1) + 1),
                   HeaderDateEnd(s, SkipWs(s, SkipWs(s, e1) + 1)))
    ELSE None

\* the lazy ([A-Z\s\.]+?) that starts at st: None, or the first end e1 > st, with
\* only characters of the class before it, at which the rest matches
HeaderFrom(s, st) ==
    IF st <= Len(s) /\ At(s, st) \in TrackClass
    THEN Found(FirstIn([j \in (st + 1)..RunEnd(s, st, TrackClass) |->
                           HeaderRest(s, j) # None],
                       st + 1, RunEnd(s, st, TrackClass)),
               RunEnd(s, st, TrackClass))
    ELSE None

\* the match that starts at st: <<st, e1>> with group 1 = s[st, e1)
HeaderAt(s, st) == IF st <= Len(s) THEN Some(<<st, HeaderFrom(s, st)[1]>>) ELSE None

\* re.search: the leftmost start that matches
HeaderSearch(s) ==
    HeaderAt(s, FirstIn([j \in 1..Len(s) |-> HeaderFrom(s, j) # None], 1, Len(s)))

\* the three groups of the match m of HeaderSearch, None for all if m is None
HeaderGroups(text, m) ==
    IF m = None THEN <<None, None, None>>
    ELSE <<Some(SliceOf(text, m[1])),
           Some(SliceOf(text, HeaderRest(text, m[1][2])[1])),
           Some(SliceOf(text, HeaderTail(text, HeaderRest(text, m[1][2])[1][2])[1]))>>

\* a variant that does not trim the fields
StripNone(g) == g

\* the fields of g, each trimmed when it is there
StripAll(g) == [k \in 1..Len(g) |-> IF g[k] = None THEN None ELSE Some(Strip(g[k][1]))]

parse_header(text) == StripAll(HeaderGroups(text, HeaderSearch(text)))

-----------------------------------------------------------------------------
(* parse_distance_surface                                                   *)

VALID_SURFACES == <<"Dirt", "Turf", "All Weather", "Tapeta">>

\* \s*On\s*The at position e: None, or the position after "The"
DistanceTail(s, e) ==
    LET a == SkipWs(s, e)
        b == SkipWs(s, a + 2)
    IN  IF LitAt(s, a, "on") /\ LitAt(s, b, "the") THEN Some(b + 3) ELSE None

\* the lazy (.*?) of the distance: the first end e, with no newline before it, at
\* which \s*On\s*The matches
DistanceEnd(s, p) ==
    Found(FirstIn([j \in p..Until(s, p, {"\n"}) |-> DistanceTail(s, j) # None],
                  p, Until(s, p, {"\n"})),
          Until(s, p, {"\n"}))

\* the pattern of line 45 at position st: None, or <<p, e>> with group 1 = s[p, e)
DistanceFrom(s, st) ==
    IF LitAt(s, st, "distance:")
    THEN RangeFrom(SkipWs(s, st + 9), DistanceEnd(s, SkipWs(s, st + 9)))
    ELSE None

\* the match that starts at st
DistanceAt(s, st) == IF st <= Len(s) THEN DistanceFrom(s, st) ELSE None

\* re.search(r'Distance:\s*(.*?)\s*On\s*The\s*(.*)', text, re.IGNORECASE):
\* None, or the range <<p, e>> of group 1 of the leftmost match
DistanceSearch(s) ==
    DistanceAt(s, FirstIn([j \in 1..Len(s) |-> DistanceFrom(s, j) # None], 1, Len(s)))

\* group 2 of the match whose group 1 ends at e: the rest of the line after
\* \s*On\s*The\s*
SurfaceGroup(s, e) == RestOfLine(s, SkipWs(s, DistanceTail(s, e)[1]))

\* a variant that compares without folding the case
RECURSIVE ClassifyCaseSensitive(_, _)
ClassifyCaseSensitive(surface_raw, k) ==
    IF k > Len(VALID_SURFACES) THEN "Unknown"
    ELSE IF Contains(surface_raw, VALID_SURFACES[k])
         THEN VALID_SURFACES[k]
         ELSE ClassifyCaseSensitive(surface_raw, k + 1)

\* lines 51-55: the first label of VALID_SURFACES contained in surface_raw
RECURSIVE ClassifyFrom(_, _)
ClassifyFrom(surface_raw, k) ==
    IF k > Len(VALID_SURFACES) THEN "Unknown"
    ELSE IF Contains(Lower(surface_raw), Lower(VALID_SURFACES[k]))
         THEN VALID_SURFACES[k]
         ELSE ClassifyFrom(surface_raw, k + 1)

ClassifySurface(surface_raw) == ClassifyFrom(surface_raw, 1)

\* re.sub(r'(?<!^)(?=[A-Z])', ' ', distance): a space before every capital letter
\* that is not the first character
SpaceCapitals(s) ==
    Concat([i \in 1..Len(s) |-> (IF i > 1 /\ At(s, i) \in UpperSet THEN " " ELSE "") \o At(s, i)],
           1, Len(s))

\* lines 58-59
CleanDistance(d) ==
    IF ~Contains(d, " ") /\ Len(d) > 3 THEN SpaceCapitals(d) ELSE d

\* lines 47-60 on the match m of DistanceSearch
DistanceFields(text, m) ==
    IF m = None THEN <<None, None>>
    ELSE <<Some(CleanDistance(Strip(SliceOf(text, m[1])))),
           Some(ClassifySurface(Strip(SurfaceGroup(text, m[1][2]))))>>

\* returns <<distance, surface>>, each None or a value
parse_distance_surface(text) == DistanceFields(text, DistanceSearch(text))

-----------------------------------------------------------------------------
(* parse_trainers_footer                                                    *)

\* re.search(r'Trainers:\s*(.*)', text, re.IGNORECASE): None, or the start of
\* the leftmost match
TrainersSearch(s) ==
    Found(FirstIn([j \in 1..Len(s) |-> LitAt(s, j, "trainers:")], 1, Len(s)), Len(s))

\* group 1 of the match whose label starts at st: the rest of the line after \s*
TrainersGroup(s, st) == RestOfLine(s, SkipWs(s, st + 9))

\* lines 85-86: one trailing period is removed
DropPeriod(t) == IF Len(t) > 0 /\ At(t, Len(t)) = "." THEN Slice(t, 1, Len(t)) ELSE t

\* re.match(r'(\d+)\s*-\s*(.*)', entry): None, or <<pgm, trainer>> with the trainer
\* trimmed and one trailing period removed (lines 81-86)
ParseTrainerEntry(entry) ==
    IF /\ RunEnd(entry, 1, Digits) > 1
       /\ SkipWs(entry, RunEnd(entry, 1, Digits)) <= Len(entry)
       /\ At(entry, SkipWs(entry, RunEnd(entry, 1, Digits))) = "-"
    THEN Some(<<Slice(entry, 1, RunEnd(entry, 1, Digits)),
                DropPeriod(Strip(RestOfLine(entry,
                    SkipWs(entry, SkipWs(entry, RunEnd(entry, 1, Digits)) + 1))))>>)
    ELSE None

\* trainer_map[pgm] = trainer (line 87)
Store(map, pgm, trainer) ==
    [k \in DOMAIN map \cup {pgm} |-> IF k = pgm THEN trainer ELSE map[k]]

\* lines 78-87 on one entry, already trimmed
StoreEntry(map, entry) ==
    IF entry = "" \/ ParseTrainerEntry(entry) = None THEN map
    ELSE Store(map, ParseTrainerEntry(entry)[1][1], ParseTrainerEntry(entry)[1][2])

\* the for loop of lines 77-87 over entries[k..]
RECURSIVE FillTrainers(_, _, _)
FillTrainers(map, entries, k) ==
    IF k > Len(entries) THEN map
    ELSE FillTrainers(StoreEntry(map, Strip(entries[k])), entries, k + 1)

\* the empty dict
EmptyMap == [k \in {} |-> ""]

parse_trainers_footer(text) ==
    IF TrainersSearch(text) = None THEN EmptyMap
    ELSE FillTrainers(EmptyMap,
                      SplitOn(TrainersGroup(text, TrainersSearch(text)[1]), {";", "\n"}),
                      1)

\* trainer_map.get(pgm, "")
MapGet(map, pgm) == IF pgm \in DOMAIN map THEN map[pgm] ELSE ""

-----------------------------------------------------------------------------
(* parse_horse_row                                                          *)

\* lines 110-114: the first token that is all digits, or None
RECURSIVE FirstDigitToken(_, _)
FirstDigitToken(parts, k) ==
    IF k > Len(parts) THEN None
    ELSE IF IsDigitStr(parts[k]) THEN Some(parts[k])
    ELSE FirstDigitToken(parts, k + 1)

\* \((.*?)\) with the "(" at position e: None, or the position of the ")"
ParenClose(s, e) ==
    LET j == Until(s, e + 1, {")", "\n"})
    IN  IF e <= Len(s) /\ At(s, e) = "(" /\ j <= Len(s) /\ At(s, j) = ")"
        THEN Some(j) ELSE None

\* the match with its "(" at e: None, or <<"(" position, ")" position>>
ParenAt(s, e) == IF ParenClose(s, e) = None THEN None ELSE Some(<<e, ParenClose(s, e)[1]>>)

\* the greedy ([^\s]+) of the token s[r0, r1) followed by \((.*?)\): the last
\* "(" at a position in (r0, r1) that a ")" closes
TightParen(s, r0, r1) ==
    IF \E e \in (r0 + 1)..(r1 - 1) : ParenClose(s, e) # None
    THEN ParenAt(s, CHOOSE e \in (r0 + 1)..(r1 - 1) :
                       /\ ParenClose(s, e) # None
                       /\ \A j \in (e + 1)..(r1 - 1) : ParenClose(s, j) = None)
    ELSE None

\* re.search(r'([^\s]+)\((.*?)\)', line): None, or <<"(" position, ")" position>>
RECURSIVE TightSearch(_, _)
TightSearch(s, i) ==
    LET r0 == SkipWs(s, i)
        r1 == Until(s, r0, Whitespace)
        m  == TightParen(s, r0, r1)
    IN  IF r0 > Len(s) THEN None
        ELSE IF m # None THEN m ELSE TightSearch(s, r1)

\* re.search(r'([^\s]+)\s+\((.*?)\)', line): None, or <<"(" position, ")" position>>
RECURSIVE LooseSearch(_, _)
LooseSearch(s, i) ==
    LET r0 == SkipWs(s, i)
        r1 == Until(s, r0, Whitespace)
        w  == SkipWs(s, r1)
    IN  IF r0 > Len(s) THEN None
        ELSE IF w > r1 /\ ParenClose(s, w) # None
             THEN ParenAt(s, w)
             ELSE LooseSearch(s, r1)

\* lines 123-125: the tight pattern, then the loose one
ParenSearch(line) ==
    IF TightSearch(line, 1) # None THEN TightSearch(line, 1) ELSE LooseSearch(line, 1)

\* a variant without the odds check of lines 133-143
HasOddsAlways(parts) == TRUE

\* lines 134-138
HasOdds(parts) ==
    \E k \in 1..Len(parts) :
        /\ Contains(parts[k], ".")
        /\ IsDigitStr(Remove(Remove(parts[k], "."), "*"))

\* lines 100-143 on the trimmed line, its tokens and the match of the jockey
HorseRow(line, parts, paren) ==
    IF line = "" \/ FirstDigitToken(parts, 1) = None THEN None
    ELSE IF ~Contains(line, "(") \/ ~Contains(line, ")") THEN None
    ELSE IF paren = None THEN None
    ELSE IF HasOdds(parts)
         THEN Some([pgm |-> FirstDigitToken(parts, 1)[1],
                    jockey |-> Slice(line, paren[1][1] + 1, paren[1][2])])
         ELSE None

\* None, or the row [pgm, jockey]
parse_horse_row(line0) ==
    HorseRow(Strip(line0), Tokens(Strip(line0)), ParenSearch(Strip(line0)))

-----------------------------------------------------------------------------
(* extract_race_data                                                        *)

CSV_FIELDNAMES == <<"Date", "Race #", "Surface", "Distance", "Jockey", "Trainer",
                    "WIN", "PLACE", "SHOW">>

\* a variant of the gate that tests `track is None`
FalsyNoneOnly(v) == v = None

\* `not track`: None and the empty string are both false
Falsy(v) == v = None \/ v = Some("")

\* a variant that numbers the ranks from 0
RankFromZero(i) == i

\* rank = i + 1
Rank(i) == i + 1

\* 1 if rank == k else 0
Flag(rank, k) == IF rank = k THEN 1 ELSE 0

\* the dict of lines 214-224; Surface and Distance may be None
MakeRecord(d, rn, sf, ds, row, tmap, i) ==
    [f \in {CSV_FIELDNAMES[k] : k \in 1..Len(CSV_FIELDNAMES)} |->
        CASE f = "Date"     -> d
          [] f = "Race #"   -> rn
          [] f = "Surface"  -> sf
          [] f = "Distance" -> ds
          [] f = "Jockey"   -> row.jockey
          [] f = "Trainer"  -> MapGet(tmap, row.pgm)
          [] f = "WIN"      -> Flag(Rank(i), 1)
          [] f = "PLACE"    -> Flag(Rank(i), 2)
          [] f = "SHOW"     -> Flag(Rank(i), 3)]

\* a variant of list.append that inserts at the front
Prepend(list, x) == <<x>> \o list

\* list.append
ListAppend(list, x) == Append(list, x)

\* for page in pdf.pages: the loop has pages left
HasPage == pageIdx <= Len(pdf)

\* lines 184-186: a page without text is passed over
SkipEmptyPage ==
    /\ pc = "page" /\ HasPage
    /\ pdf[pageIdx] = ""
    /\ pageIdx' = pageIdx + 1
    /\ UNCHANGED <<pdf, pc, track, date_str, race_num, date, distance, surface,
                   trainer_map, horse_rows, lines, lineIdx, rowIdx, all_races,
                   origin, csv_out, skipped,
                   callVars>>

\* line 189: track, date_str, race_num = parse_header(text)
SetHeader(h) == track' = h[1] /\ date_str' = h[2] /\ race_num' = h[3]

\* lines 189-191: no track, the page is passed over
SkipHeader(h) == Falsy(h[1]) /\ SetHeader(h)

SkipPage ==
    /\ pc = "page" /\ HasPage
    /\ pdf[pageIdx] # ""
    /\ SkipHeader(parse_header(pdf[pageIdx]))
    /\ pageIdx' = pageIdx + 1
    /\ skipped' = skipped \cup {pageIdx}
    /\ UNCHANGED <<pdf, pc, date, distance, surface, trainer_map, horse_rows, lines,
                   lineIdx, rowIdx, all_races, origin, csv_out, callVars>>

\* lines 189-195: the header gate passed; the date, the distance and the
\* surface of the page
ParsePage(h, ds) ==
    /\ ~Falsy(h[1])
    /\ SetHeader(h)
    /\ date' = format_date(h[2][1])
    /\ distance' = ds[1] /\ surface' = ds[2]

\* a variant of lines 193-199 that leaves out `horse_rows = []`
BeginPageKeepsRows ==
    /\ pc = "page" /\ HasPage
    /\ pdf[pageIdx] # ""
    /\ ParsePage(parse_header(pdf[pageIdx]), parse_distance_surface(pdf[pageIdx]))
    /\ trainer_map' = parse_trainers_footer(pdf[pageIdx])
    /\ lines' = SplitOn(pdf[pageIdx], {"\n"})
    /\ lineIdx' = 1
    /\ pc' = "lines"
    /\ UNCHANGED <<pdf, pageIdx, horse_rows, rowIdx, all_races, origin, csv_out,
                   skipped,
                   callVars>>

\* lines 189-199: the header gate passed; the page's fragments are parsed
BeginPage ==
    /\ pc = "page" /\ HasPage
    /\ pdf[pageIdx] # ""
    /\ ParsePage(parse_header(pdf[pageIdx]), parse_distance_surface(pdf[pageIdx]))
    /\ trainer_map' = parse_trainers_footer(pdf[pageIdx])
    /\ lines' = SplitOn(pdf[pageIdx], {"\n"})
    /\ horse_rows' = <<>>
    /\ lineIdx' = 1
    /\ pc' = "lines"
    /\ UNCHANGED <<pdf, pageIdx, rowIdx, all_races, origin, csv_out, skipped,
                   callVars>>

\* lines 201-203: the row is kept if the line parsed
AddRow(rows, row_data) ==
    IF row_data # None THEN ListAppend(rows, row_data[1]) ELSE rows

\* lines 200-203: one iteration of `for line in lines`
CollectRow ==
    /\ pc = "lines" /\ lineIdx <= Len(lines)
    /\ horse_rows' = AddRow(horse_rows, parse_horse_row(lines[lineIdx]))
    /\ lineIdx' = lineIdx + 1
    /\ UNCHANGED <<pdf, pageIdx, pc, track, date_str, race_num, date, distance,
                   surface, trainer_map, lines, rowIdx, all_races, origin, csv_out,
                   skipped,
                   callVars>>

\* line 206: the lines are exhausted, enumerate(horse_rows) starts at 0
EndLines ==
    /\ pc = "lines" /\ lineIdx > Len(lines)
    /\ rowIdx' = 0
    /\ pc' = "rows"
    /\ UNCHANGED <<pdf, pageIdx, track, date_str, race_num, date, distance, surface,
                   trainer_map, horse_rows, lines, lineIdx, all_races, origin,
                   csv_out, skipped,
                   callVars>>

\* lines 206-224: one iteration of `for i, row in enumerate(horse_rows)`
EmitRecord ==
    /\ pc = "rows" /\ rowIdx < Len(horse_rows)
    /\ all_races' = ListAppend(all_races,
                       MakeRecord(date, race_num[1], surface, distance,
                                  horse_rows[rowIdx + 1], trainer_map, rowIdx))
    /\ origin' = ListAppend(origin, pageIdx)
    /\ rowIdx' = rowIdx + 1
    /\ UNCHANGED <<pdf, pageIdx, pc, track, date_str, race_num, date, distance,
                   surface, trainer_map, horse_rows, lines, lineIdx, csv_out,
                   skipped,
                   callVars>>

\* the rows are exhausted: on to the next page
EndPage ==
    /\ pc = "rows" /\ rowIdx >= Len(horse_rows)
    /\ pageIdx' = pageIdx + 1
    /\ pc' = "page"
    /\ UNCHANGED <<pdf, track, date_str, race_num, date, distance, surface,
                   trainer_map, horse_rows, lines, lineIdx, rowIdx, all_races,
                   origin, csv_out, skipped,
                   callVars>>

\* line 226: return all_races
Return ==
    /\ pc = "page" /\ ~HasPage
    /\ pc' = "returned"
    /\ UNCHANGED <<pdf, pageIdx, track, date_str, race_num, date, distance, surface,
                   trainer_map, horse_rows, lines, lineIdx, rowIdx, all_races,
                   origin, csv_out, skipped,
                   callVars>>

-----------------------------------------------------------------------------
(* save_to_csv                                                              *)

DoubleQuotes(s) ==
    Concat([i \in 1..Len(s) |-> IF At(s, i) = "\"" THEN "\"\"" ELSE At(s, i)], 1, Len(s))

\* a quoted field of the excel dialect: quotechar '"', doublequote
Quoted(s) == "\"" \o DoubleQuotes(s) \o "\""

\* csv.QUOTE_NONNUMERIC on a str: quoted
WriteStr(s) == Quoted(s)

\* csv.QUOTE_NONNUMERIC on None: the empty string, quoted
WriteNone == Quoted("")

\* a variant with csv.QUOTE_ALL
WriteIntQuoted(n) == Quoted(ToStr(n))

\* csv.QUOTE_NONNUMERIC on an int: str(n), not quoted
WriteInt(n) == ToStr(n)

\* the columns that extract_race_data fills with an int (lines 221-223) and those
\* that may hold None (lines 217-218)
IntFields == {"WIN", "PLACE", "SHOW"}
OptFields == {"Surface", "Distance"}

\* one field as the writer emits it
WriteField(name, v) ==
    IF name \in IntFields THEN WriteInt(v)
    ELSE IF name \in OptFields THEN (IF v = None THEN WriteNone ELSE WriteStr(v[1]))
    ELSE WriteStr(v)

\* writer.writerow: the fields in CSV_FIELDNAMES order
WriteRow(r) ==
    [k \in 1..Len(CSV_FIELDNAMES) |-> WriteField(CSV_FIELDNAMES[k], r[CSV_FIELDNAMES[k]])]

\* writer.writeheader
WriteHeader == [k \in 1..Len(CSV_FIELDNAMES) |-> WriteStr(CSV_FIELDNAMES[k])]

\* lines 255-256 and 238-241: save_to_csv(data, output_path)
SaveToCsv ==
    /\ pc = "returned"
    /\ csv_out' = <<WriteHeader>> \o [n \in 1..Len(all_races) |-> WriteRow(all_races[n])]
    /\ pc' = "saved"
    /\ UNCHANGED <<pdf, pageIdx, track, date_str, race_num, date, distance, surface,
                   trainer_map, horse_rows, lines, lineIdx, rowIdx, all_races,
                   origin, skipped,
                   callVars>>

-----------------------------------------------------------------------------
(* Single calls of the parsers                                              *)

CallParseHeader ==
    /\ pc = "parse_header" /\ ~called
    /\ ret' = parse_header(arg.text)
    /\ called' = TRUE
    /\ UNCHANGED <<pipeVars, arg>>

CallFormatDate ==
    /\ pc = "format_date" /\ ~called
    /\ ret' = format_date(arg.text)
    /\ called' = TRUE
    /\ UNCHANGED <<pipeVars, arg>>

CallParseHorseRow ==
    /\ pc = "parse_horse_row" /\ ~called
    /\ ret' = parse_horse_row(arg.text)
    /\ called' = TRUE
    /\ UNCHANGED <<pipeVars, arg>>

-----------------------------------------------------------------------------
(* Inputs                                                                   *)

\* bounds of the input sets
MaxPages == 2
MaxSurfaceParts == 2
MaxEntries == 2
MaxDateParts == 3
MaxTokens == 4

\* the sequences of at most n elements of S
RECURSIVE SeqsUpTo(_, _)
SeqsUpTo(S, n) ==
    IF n = 0 THEN {<<>>}
    ELSE LET shorter == SeqsUpTo(S, n - 1)
         IN  shorter \cup {Append(q, x) : q \in shorter, x \in S}

\* sep.join(parts)
RECURSIVE JoinFrom(_, _, _)
JoinFrom(parts, k, sep) ==
    IF k > Len(parts) THEN ""
    ELSE IF k = Len(parts) THEN parts[k]
    ELSE parts[k] \o sep \o JoinFrom(parts, k + 1, sep)

Join(parts, sep) == JoinFrom(parts, 1, sep)

\* pages of the documents of several pages: four rows, trainers with a repeated
\* key and a missing one; no header; no text; a header whose track is blank; run-
\* together header, no distance line, no footer; a header and no rows
PagePool ==
    { "AQU - May 1, 2025 - Race 1\nDistance: Six Furlongs On The turf or Dirt\n1 Ha(Smith) 2.5\n2 Hb (Doe) *1.1\n3 Hc(Lee) 7.\nscratched\n4 Hd(Ray) 9.9\nTrainers: 1-A.; 2-B.; 3-C.; 1-D",
      "notes only\n1 Hx(Zed) 3.3",
      "",
      "7 - May2,2025 - Race 2\n5 He(Kim) 4.0\nTrainers: 5-E.",
      "BEL-June10,2024-Race12\n8 Hf(Ito) 5.5\n x \n9 Hg (Poe) 1.2.3",
      "SAR - July 4, 2025 - Race 3\nDistance:OneMileOnTheInner turf" }

\* pieces of the text after "On The"
SurfaceParts == {"Dirt", "TURF", "all weather", "Tapeta", "Poly", " "}

SurfacePages ==
    { "T-May1,2025-Race1\nDistance:1M On The " \o Join(q, "") \o "\n1 H(J) 2.5"
        : q \in SeqsUpTo(SurfaceParts, MaxSurfaceParts) }

\* entries of the footer
EntryPool == {"1-A.", "1 - B", "2-C..", "x", "02-D", "3-"}

\* what separates two entries; after a line feed the text is no longer on the
\* line of the label
EntrySeps == {"; ", "\n"}

FooterPages ==
    { "T-May1,2025-Race1\n1 H(J) 2.5\n2 K (L) 3.5\n3 M(N) 1.5\nTrainers: "
          \o Join(q, sep)
        : q \in SeqsUpTo(EntryPool, MaxEntries), sep \in EntrySeps }

Documents ==
    SeqsUpTo(PagePool, MaxPages)
        \cup {<<p>> : p \in SurfacePages} \cup {<<p>> : p \in FooterPages}

\* the locals before the first page, and the positions outside extract_race_data
PipeIdle ==
    /\ pageIdx = 1
    /\ track = None /\ date_str = None /\ race_num = None
    /\ date = "" /\ distance = None /\ surface = None
    /\ trainer_map = EmptyMap /\ horse_rows = <<>> /\ lines = <<>>
    /\ lineIdx = 1 /\ rowIdx = 0
    /\ all_races = <<>> /\ origin = <<>> /\ skipped = {} /\ csv_out = <<>>

NoCall == arg = [text |-> ""] /\ called = FALSE /\ ret = None

\* extract_race_data(pdf_path) followed by save_to_csv, on a document
Init ==
    /\ pdf \in Documents
    /\ pc = "page"
    /\ PipeIdle
    /\ NoCall

Next ==
    \/ SkipEmptyPage
    \/ SkipPage
    \/ BeginPage
    \/ CollectRow
    \/ EndLines
    \/ EmitRecord
    \/ EndPage
    \/ Return
    \/ SaveToCsv

Spec == Init /\ [][Next]_vars

\* headers X - Y - Race N: the track X, the gaps around the hyphens and before N,
\* the middle part Y built from pieces, the word Race and the number N
HeaderTracks == {"AQU", " St. b "}
\* the last gap is a vertical tab and a file separator (U+000B, U+001C)
HeaderGaps == {<<"", "">>, <<" ", " ">>, <<" \t", "">>, <<"", "">>}
HeaderDateParts == {"May1,2025", " ", "-", "Race", "7", "\n"}
HeaderWords == {"Race", "rACE"}
HeaderNumbers == {"1", "12"}

HeaderInputs ==
    { [x |-> x, y |-> Join(q, ""), n |-> n,
       text |-> x \o g[1] \o "-" \o g[2] \o Join(q, "") \o g[1] \o "-" \o g[2]
                  \o w \o g[1] \o n]
        : x \in HeaderTracks, g \in HeaderGaps,
          q \in SeqsUpTo(HeaderDateParts, MaxDateParts),
          w \in HeaderWords, n \in HeaderNumbers }

InitHeader ==
    /\ pdf = <<>> /\ pc = "parse_header" /\ PipeIdle
    /\ arg \in HeaderInputs /\ called = FALSE /\ ret = <<None, None, None>>

NextHeader == CallParseHeader

SpecHeader == InitHeader /\ [][NextHeader]_vars

\* dates "M D, Y" and "MD,Y": month names in several cases, two words that are
\* no month names, days and years in several spellings, and texts of other shapes
DateMonths == {"January", "february", "MARCH", "April", "May", "June", "July",
               "August", "September", "October", "November", "December",
               "Jan", "Mai"}
DateDays == {"1", "01", "15", "28", "29", "30", "31", "32", "0"}
DateYears == {"2024", "2025", "1900", "2000", "999", "0999"}
\* the last gap is a vertical tab (U+000B)
DateGaps == {"", " ", ""}
DateOthers == {"", "x", "January 1, 2025 ", "a1 January 1, 2025", "1,2,3 a1b2",
               "May 5 , 2025", "May5,2025,2026"}

DateInputs ==
    { [m |-> m, d |-> d, y |-> y, text |-> m \o g1 \o d \o "," \o g2 \o y]
        : m \in DateMonths, d \in DateDays, y \in DateYears,
          g1 \in DateGaps, g2 \in DateGaps }
    \cup { [m |-> "", d |-> "", y |-> "", text |-> t] : t \in DateOthers }

InitDate ==
    /\ pdf = <<>> /\ pc = "format_date" /\ PipeIdle
    /\ arg \in DateInputs /\ called = FALSE /\ ret = ""

NextDate == CallFormatDate

SpecDate == InitDate /\ [][NextDate]_vars

\* lines of at most MaxTokens tokens
\* the last two tokens are a line feed and a unit separator (U+001F)
RowTokens == {"1", "12", "H(J)", "(J)", ")K(", "2.5", "*1.2.3", "x.", "\n", ""}

RowInputs == { [text |-> Join(q, " ")] : q \in SeqsUpTo(RowTokens, MaxTokens) }

InitHorseRow ==
    /\ pdf = <<>> /\ pc = "parse_horse_row" /\ PipeIdle
    /\ arg \in RowInputs /\ called = FALSE /\ ret = None

NextHorseRow == CallParseHorseRow

SpecHorseRow == InitHorseRow /\ [][NextHorseRow]_vars

-----------------------------------------------------------------------------
(* Properties                                                               *)

\* the loop iteration of page k has ended
Completed(k) == k < pageIdx

\* the records of all_races that page k emitted, in list order
RECURSIVE RecordsFrom(_, _)
RecordsFrom(k, n) ==
    IF n > Len(all_races) THEN <<>>
    ELSE (IF origin[n] = k THEN <<all_races[n]>> ELSE <<>>) \o RecordsFrom(k, n + 1)

RecordsOf(k) == RecordsFrom(k, 1)

\* the rows of the qualifying lines of a page text, in line order
RECURSIVE QualifyingFrom(_, _)
QualifyingFrom(ls, k) ==
    IF k > Len(ls) THEN <<>>
    ELSE parse_horse_row(ls[k]) \o QualifyingFrom(ls, k + 1)

QualifyingRows(text) == QualifyingFrom(SplitOn(text, {"\n"}), 1)

\* page k has text and did not take the `continue` of the header gate
PassesGate(k) == pdf[k] # "" /\ k \notin skipped

IsPrefix(a, b) == Len(a) <= Len(b) /\ SubSeq(b, 1, Len(a)) = a

\* C1: a page that passed the header gate and has N qualifying rows has emitted,
\* once its iteration has ended, exactly N records in row order; the record at
\* 0-based position i has WIN = 1 iff i = 0, PLACE = 1 iff i = 1, SHOW = 1 iff
\* i = 2 (all 0 from i = 3 on, never two flags), on every page anew.
C1_FlagsByPosition ==
    \A k \in 1..Len(pdf) :
        (Completed(k) /\ PassesGate(k)) =>
            LET recs == RecordsOf(k)
                rows == QualifyingRows(pdf[k])
            IN  /\ Len(recs) = Len(rows)
                /\ \A i \in 0..(Len(rows) - 1) :
                      /\ recs[i + 1]["Jockey"] = rows[i + 1].jockey
                      /\ recs[i + 1]["WIN"] = (IF i = 0 THEN 1 ELSE 0)
                      /\ recs[i + 1]["PLACE"] = (IF i = 1 THEN 1 ELSE 0)
                      /\ recs[i + 1]["SHOW"] = (IF i = 2 THEN 1 ELSE 0)
                      /\ recs[i + 1]["WIN"] + recs[i + 1]["PLACE"]
                             + recs[i + 1]["SHOW"] <= 1

\* a second page with four records (a fourth one with no flag) after a page
\* that emitted records of its own
C1_Witness ==
    \E k \in 2..Len(pdf) :
        /\ Completed(k) /\ PassesGate(k)
        /\ Len(RecordsOf(k)) >= 4
        /\ Len(RecordsOf(k - 1)) >= 1

\* the pages of the records of all_races never decrease along the list, and the
\* records of a page follow the line order of its qualifying rows
C2_PageThenLineOrder ==
    /\ \A i, j \in 1..Len(origin) : i < j => origin[i] <= origin[j]
    /\ Len(origin) = Len(all_races)
    /\ \A k \in 1..Len(pdf) :
          LET recs == RecordsOf(k)
              rows == QualifyingRows(pdf[k])
          IN  /\ Len(recs) <= Len(rows)
              /\ \A i \in 1..Len(recs) : recs[i]["Jockey"] = rows[i].jockey

\* C2: every step leaves the records already in all_races where they are and
\* unchanged (the list only grows at its end), and at every moment the list is
\* ordered by page in document order and, within a page, by line order.
C2_OutputOrder ==
    /\ [][IsPrefix(all_races, all_races') /\ IsPrefix(origin, origin')]_vars
    /\ []C2_PageThenLineOrder

\* records of two pages, the earlier page with more than one record
C2_Witness ==
    \E i, j \in 1..Len(origin) :
        /\ i + 1 < j
        /\ origin[i] = origin[i + 1]
        /\ origin[i + 1] < origin[j]

\* a written field that starts and ends with the quote character
IsQuotedField(f) == Len(f) >= 2 /\ At(f, 1) = "\"" /\ At(f, Len(f)) = "\""

\* C3 as stated: every field of every data row is written quoted, the integer
\* fields WIN, PLACE and SHOW included.
C3_EveryFieldQuoted ==
    pc = "saved" =>
        \A n \in 2..Len(csv_out) :
            \A k \in 1..Len(CSV_FIELDNAMES) : IsQuotedField(csv_out[n][k])

\* C3, amended: save_to_csv writes the six string fields of every data row
\* (Date, Race #, Surface, Distance, Jockey, Trainer; an absent Surface or
\* Distance as the empty quoted value) quoted, and the integer fields WIN, PLACE
\* and SHOW as bare digits, not quoted.
C3_StringsQuotedIntsBare ==
    pc = "saved" =>
        /\ Len(csv_out) = Len(all_races) + 1
        /\ \A n \in 2..Len(csv_out) :
              /\ \A k \in 1..Len(CSV_FIELDNAMES) :
                    CSV_FIELDNAMES[k] \notin {"WIN", "PLACE", "SHOW"}
                        => IsQuotedField(csv_out[n][k])
              /\ \A k \in 1..Len(CSV_FIELDNAMES) :
                    CSV_FIELDNAMES[k] \in {"WIN", "PLACE", "SHOW"}
                        => /\ ~IsQuotedField(csv_out[n][k])
                           /\ csv_out[n][k] =
                                 (IF all_races[n - 1][CSV_FIELDNAMES[k]] = 1
                                  THEN "1" ELSE "0")

\* a written file with a data row whose Surface is absent and one whose WIN is 1
C3_Witness ==
    /\ pc = "saved"
    /\ \E n \in 2..Len(csv_out) : all_races[n - 1]["Surface"] = None
    /\ \E n \in 2..Len(csv_out) : all_races[n - 1]["WIN"] = 1

\* C4 as stated: a page with text is skipped iff parse_header returns (None,
\* None, None), and whenever the header pattern matches every qualifying row
\* yields a record.
C4_NullHeaderIsSoleGate ==
    \A k \in 1..Len(pdf) :
        (Completed(k) /\ pdf[k] # "") =>
            LET h == parse_header(pdf[k])
            IN  /\ (k \in skipped) <=> (h = <<None, None, None>>)
                /\ (h # <<None, None, None>>)
                      => Len(RecordsOf(k)) = Len(QualifyingRows(pdf[k]))

\* C4, amended: a page with text is skipped (it contributes no record) iff
\* parse_header returns no track: (None, None, None), or a track that is empty
\* after trimming because only whitespace precedes the first hyphen of the
\* match.  Whenever the returned track is not empty every qualifying row of the
\* page yields a record, and a skipped page never stops the pages after it: the
\* loop returns only after the last page.
C4_NoTrackIsGate ==
    /\ \A k \in 1..Len(pdf) :
          (Completed(k) /\ pdf[k] # "") =>
              LET h == parse_header(pdf[k])
              IN  /\ (k \in skipped) <=> (h[1] = None \/ h[1] = Some(""))
                  /\ (k \in skipped) => RecordsOf(k) = <<>>
                  /\ (k \notin skipped)
                        => Len(RecordsOf(k)) = Len(QualifyingRows(pdf[k]))
    /\ pc \in {"returned", "saved"} => \A k \in 1..Len(pdf) : Completed(k)

\* a skipped page whose header matched with a blank track and which has a
\* qualifying row, followed by a page that emitted records
C4_Witness ==
    \E k \in 1..(Len(pdf) - 1) :
        /\ k \in skipped
        /\ parse_header(pdf[k])[1] = Some("")
        /\ Len(QualifyingRows(pdf[k])) > 0
        /\ Completed(k + 1)
        /\ Len(RecordsOf(k + 1)) > 0

\* (1) some whitespace-delimited token is all digits
HasDigitToken(line) ==
    \E k \in 1..Len(Tokens(line)) : IsDigitStr(Tokens(line)[k])

\* the first all-digit token in reading order
FirstAllDigitToken(line) ==
    LET ts == Tokens(line)
        K  == {k \in 1..Len(ts) : IsDigitStr(ts[k])}
    IN  ts[CHOOSE k \in K : \A j \in K : k <= j]

\* (2) as stated: the line contains "(" and ")"
HasBothParens(line) == Contains(line, "(") /\ Contains(line, ")")

\* (2) as the code has it: a "(" that is not the first character of the trimmed
\* line, with a ")" after it and no line feed between the two
HasClosedParen(line) ==
    LET l == Strip(line)
    IN  \E i \in 2..Len(l) :
            /\ At(l, i) = "("
            /\ \E j \in (i + 1)..Len(l) :
                  At(l, j) = ")" /\ \A k \in (i + 1)..(j - 1) : At(l, k) # "\n"

\* (3) as the code has it: a token with a period that, without its periods and
\* asterisks, is a non-empty run of digits
HasOddsToken(line) ==
    \E k \in 1..Len(Tokens(line)) :
        LET t == Tokens(line)[k]
        IN  /\ \E i \in 1..Len(t) : At(t, i) = "."
            /\ Len(Remove(Remove(t, "*"), ".")) > 0
            /\ \A i \in 1..Len(t) : At(t, i) \in DigitChars \cup {".", "*"}

\* C5 as stated: a row is returned iff the line has an all-digit token, both
\* parentheses and a token that, without its asterisks, is a decimal number with
\* a period (digits around exactly one period, at least one digit).
C5_ThreeConditions ==
    LET IsDecimal(t) == /\ Contains(t, ".")
                        /\ Len(Remove(t, ".")) = Len(t) - 1
                        /\ IsDigitStr(Remove(t, "."))
    IN  called =>
          ((ret # None) <=>
              (/\ HasDigitToken(arg.text)
               /\ HasBothParens(arg.text)
               /\ \E k \in 1..Len(Tokens(arg.text)) :
                     IsDecimal(Remove(Tokens(arg.text)[k], "*"))))

\* C5, amended: parse_horse_row returns a row iff (1) some token is all digits,
\* (2) the trimmed line has a "(" that is not its first character and a ")"
\* after that "(" with no line feed between the two, and (3) some token contains
\* a period and is, without its periods and asterisks, a non-empty run of digits
\* ("2.5", "*1.5", "7." and "1.2.3" alike); the program number of a returned row
\* is the first all-digit token.  So a line with a program number and a
\* parenthesized jockey but no such odds token returns no row.
C5_RowIffConditions ==
    called =>
        /\ (ret # None) <=>
              (HasDigitToken(arg.text) /\ HasClosedParen(arg.text)
                   /\ HasOddsToken(arg.text))
        /\ (ret # None) => ret[1].pgm = FirstAllDigitToken(arg.text)
        /\ (HasDigitToken(arg.text) /\ HasClosedParen(arg.text)
                /\ ~HasOddsToken(arg.text)) => ret = None

\* a returned row whose line has a second, different all-digit token after
\* tokens that are not all digits
C5_Witness ==
    /\ called /\ ret # None
    /\ ~IsDigitStr(Tokens(arg.text)[1])
    /\ \E k \in 1..Len(Tokens(arg.text)) :
          IsDigitStr(Tokens(arg.text)[k]) /\ Tokens(arg.text)[k] # ret[1].pgm

\* the entries of the form <digits> - <name> among the pieces es[k..], in order,
\* each as <<digits, name without one trailing period>>
RECURSIVE EntriesFrom(_, _)
EntriesFrom(es, k) ==
    IF k > Len(es) THEN <<>>
    ELSE ParseTrainerEntry(Strip(es[k])) \o EntriesFrom(es, k + 1)

\* the name of the last entry of es with that program number, "" if none
ExpectedTrainer(es, pgm) ==
    IF \E k \in 1..Len(es) : es[k][1] = pgm
    THEN es[CHOOSE k \in 1..Len(es) :
                /\ es[k][1] = pgm
                /\ \A j \in (k + 1)..Len(es) : es[j][1] # pgm][2]
    ELSE ""

\* C6: the Trainer of every emitted record is the name (one trailing period
\* stripped) of the last footer entry <digits> - <name> of its page whose digits
\* equal the row's program number, and "" when the footer has no such entry or
\* the page has no "Trainers:" footer.  The footer is the text that follows the
\* first "Trainers:" label; its entries are its pieces between semicolons and
\* line feeds.
C6_TrainerIsLastEntry ==
    \A k \in 1..Len(pdf) :
        LET label  == TrainersSearch(pdf[k])
            footer == IF label = None THEN ""
                      ELSE Slice(pdf[k], label[1] + 9, Len(pdf[k]) + 1)
            es     == EntriesFrom(SplitOn(footer, {";", "\n"}), 1)
            recs   == RecordsOf(k)
            rows   == QualifyingRows(pdf[k])
        IN  \A i \in 1..Len(recs) :
                /\ i <= Len(rows)
                /\ recs[i]["Trainer"] = ExpectedTrainer(es, rows[i].pgm)

\* a completed page whose footer has the entry 1-A. on the line of the label and
\* the later entry 1 - B on the next line: the record of row 1 has the trainer A
C6_Witness ==
    \E k \in 1..Len(pdf) :
        /\ Completed(k)
        /\ pdf[k] = "T-May1,2025-Race1\n1 H(J) 2.5\n2 K (L) 3.5\n3 M(N) 1.5\nTrainers: 1-A.\n1 - B"
        /\ Len(RecordsOf(k)) = 3
        /\ RecordsOf(k)[1]["Trainer"] = "A"

\* the number of the month named m (any letter case), 0 if m names no month
MonthNumber(m) ==
    IF \E i \in 1..12 : Lower(m) = MonthNames[i]
    THEN CHOOSE i \in 1..12 : Lower(m) = MonthNames[i]
    ELSE 0

\* m, d, y spell a date that strptime takes: a month name, a year of exactly
\* four digits from 0001 on and a day of that month in one or two digits
IsCalendarDate(m, d, y) ==
    /\ MonthNumber(m) # 0
    /\ IsDigitRun(y) /\ Len(y) = 4 /\ ToInt(y) >= 1
    /\ IsDigitRun(d) /\ Len(d) <= 2
    /\ ToInt(d) >= 1 /\ ToInt(d) <= DaysInMonth(ToInt(y), MonthNumber(m))

\* C7 as stated: for every valid month name, day and year (a year from 1 to
\* 9999, however many digits spell it), the spaced and the compressed form both
\* yield the YYYY-MM-DD rendering of the date, its year in four digits.
C7_AnyValidDate ==
    LET year  == ToInt(arg.y)
        valid == /\ MonthNumber(arg.m) # 0
                 /\ IsDigitRun(arg.y) /\ year >= 1 /\ year <= 9999
                 /\ IsDigitRun(arg.d) /\ Len(arg.d) <= 2
                 /\ ToInt(arg.d) >= 1
                 /\ ToInt(arg.d) <= DaysInMonth(year, MonthNumber(arg.m))
        yyyy  == IF year < 10 THEN "000" \o ToStr(year)
                 ELSE IF year < 100 THEN "00" \o ToStr(year)
                 ELSE IF year < 1000 THEN "0" \o ToStr(year)
                 ELSE ToStr(year)
    IN  (called /\ valid)
            => ret = yyyy \o "-" \o Pad2(MonthNumber(arg.m)) \o "-" \o Pad2(ToInt(arg.d))

\* C7, amended: for every month name (in any letter case), every year written
\* with four digits from 1000 to 9999 and every day of that month, "M D, Y" and
\* "MD,Y" (and the forms with one of the two spaces, or with a vertical tab
\* for a space) yield the same string, the YYYY-MM-DD rendering of the date;
\* and for any input that does not parse as
\* "Month Day, Year" after the spaces are inserted, format_date returns the
\* input unchanged.
C7_FourDigitYears ==
    called =>
        /\ (IsCalendarDate(arg.m, arg.d, arg.y) /\ ToInt(arg.y) >= 1000)
              => ret = arg.y \o "-" \o Pad2(MonthNumber(arg.m)) \o "-" \o Pad2(ToInt(arg.d))
        /\ Strptime(NormalizeDate(arg.text)) = None => ret = arg.text

\* the compressed form of a leap day came back in ISO form
C7_Witness ==
    /\ called
    /\ arg.text = "february29,2024"
    /\ ret = "2024-02-29"

\* y holds a hyphen followed, after optional whitespace, by "Race" (any case),
\* optional whitespace and a digit
HasRaceTail(y) ==
    \E e \in 1..Len(y) :
        LET b == SkipWs(y, e + 1)
            c == SkipWs(y, b + 4)
        IN  At(y, e) = "-" /\ LitAt(y, b, "race") /\ c <= Len(y) /\ At(y, c) \in Digits

\* C8 as stated: every header X - Y - Race N, whatever Y is, comes back as
\* (X, Y, N) with the fields trimmed.
C8_AnyMiddlePart ==
    called => ret = <<Some(Strip(arg.x)), Some(Strip(arg.y)), Some(arg.n)>>

\* C8, amended: for every header X - Y - Race N (X a non-empty text of letters,
\* spaces and periods, N a run of digits, any whitespace around the hyphens and
\* before N, any letter case of Race) whose middle part Y has no line feed and no
\* hyphen that is followed by optional whitespace, "Race", optional whitespace
\* and a digit, parse_header returns (X, Y, N) with each field trimmed, N being
\* the whole digit run.
C8_HeaderRecovered ==
    (called /\ ~Contains(arg.y, "\n") /\ ~HasRaceTail(arg.y))
        => ret = <<Some(Strip(arg.x)), Some(Strip(arg.y)), Some(arg.n)>>

\* a header with padded track, a middle part that holds a hyphen, gaps of blank
\* and tab, and a number of two digits
C8_Witness ==
    /\ called
    /\ arg.text = " St. b  \t-May1,2025-7 \t-rACE \t12"
    /\ ret = <<Some("St. b"), Some("May1,2025-7"), Some("12")>>

\* the label of the surface text by the ordered list Dirt, Turf, All Weather,
\* Tapeta
ExpectedSurface(raw) ==
    LET t == Lower(raw)
    IN  IF Contains(t, "dirt") THEN "Dirt"
        ELSE IF Contains(t, "turf") THEN "Turf"
        ELSE IF Contains(t, "all weather") THEN "All Weather"
        ELSE IF Contains(t, "tapeta") THEN "Tapeta"
        ELSE "Unknown"

\* C9: the Surface of every record of a page whose text matches
\* Distance:<distance> On The <surface-text> is the first label of [Dirt, Turf,
\* All Weather, Tapeta] that the surface text contains ignoring case (the order
\* of the list decides), "Unknown" if it contains none; on a page without a
\* match parse_distance_surface gives (None, None) and the records of the page
\* are emitted all the same, with no Surface and no Distance.
C9_SurfaceByListOrder ==
    /\ \A n \in 1..Len(all_races) :
          LET m == DistanceSearch(pdf[origin[n]])
          IN  IF m = None
              THEN all_races[n]["Surface"] = None /\ all_races[n]["Distance"] = None
              ELSE all_races[n]["Surface"] =
                       Some(ExpectedSurface(Strip(SurfaceGroup(pdf[origin[n]], m[1][2]))))
    /\ \A k \in 1..Len(pdf) :
          (Completed(k) /\ PassesGate(k) /\ DistanceSearch(pdf[k]) = None)
              => Len(RecordsOf(k)) = Len(QualifyingRows(pdf[k]))

\* a record of a page whose surface text names Turf before Dirt, classified
\* Dirt, and a record of a page without a distance line
C9_Witness ==
    /\ \E n \in 1..Len(all_races) :
          LET m == DistanceSearch(pdf[origin[n]])
          IN  /\ m # None
              /\ Strip(SurfaceGroup(pdf[origin[n]], m[1][2])) = "turf or Dirt"
              /\ all_races[n]["Surface"] = Some("Dirt")
    /\ \E n \in 1..Len(all_races) :
          /\ DistanceSearch(pdf[origin[n]]) = None
          /\ all_races[n]["Surface"] = None

\* the records a page text yields on its own
PageRecords(text) ==
    IF text = "" \/ Falsy(parse_header(text)[1]) THEN <<>>
    ELSE LET h    == parse_header(text)
             ds   == parse_distance_surface(text)
             rows == QualifyingRows(text)
         IN  [i \in 1..Len(rows) |->
                 MakeRecord(format_date(h[2][1]), h[3][1], ds[2], ds[1], rows[i],
                            parse_trainers_footer(text), i - 1)]

\* C10: the records a page has emitted once its iteration has ended are those its
\* text yields on its own, whatever pages come before it; so two pages of a
\* document with the same text emit the same records.
C10_PagesIndependent ==
    /\ \A k \in 1..Len(pdf) : Completed(k) => RecordsOf(k) = PageRecords(pdf[k])
    /\ \A j, k \in 1..Len(pdf) :
          (Completed(j) /\ Completed(k) /\ pdf[j] = pdf[k])
              => RecordsOf(j) = RecordsOf(k)

\* the same page twice in a document, each time with its four records
C10_Witness ==
    \E j, k \in 1..Len(pdf) :
        /\ j < k /\ Completed(k)
        /\ pdf[j] = pdf[k]
        /\ Len(RecordsOf(j)) >= 4
        /\ RecordsOf(j) = RecordsOf(k)

=============================================================================
